---- MODULE Spec2Model ----
(***************************************************************************)
(* Model of the real-time task-progress client of pixcore:                 *)
(* TaskWebSocketClient (frontend/src/lib/api.ts, lines 378-657).           *)
(*                                                                         *)
(* The browser runs every handler to completion on one event loop, so each *)
(* public method, each WebSocket event handler and each timer callback is  *)
(* one atomic action. The WebSocket objects the client creates are modelled *)
(* with their readyState and the events the transport may still deliver on *)
(* them.                                                                   *)
(***************************************************************************)
EXTENDS Integers, Sequences, FiniteSets, TLC

\* ------------------------------------------------------------------ bounds
MaxSocks == 3          \* WebSocket objects created in one behaviour
MaxClientSocks == 2    \* the same, in the client specification
MaxObserveSocks == 2   \* the same, in the observer specification
MaxFrames == 2         \* inbound frames handled in one behaviour
MaxBackoffSocks == 6   \* WebSocket objects in the backoff specification
MaxSettleSocks == 2    \* WebSocket objects in the fair specification
MaxEvents == 3         \* events the global history view receives
MaxAdapterEvents == 1  \* the same, with all four hooks mounted
MaxObjects == 4        \* client instances constructed by getWebSocketClient
                       \* and WebSocket objects they create, together

\* ------------------------------------------------- program constants
maxReconnectAttempts == 5
reconnectDelay == 1000

\* ------------------------------------------------- input domains
TaskIds == {"t1", "t2"}
Callbacks == {"A", "B"}            \* TaskProgressCallback functions
ConnObservers == {"O1"}            \* ConnectionCallback functions
ErrObservers == {"E1", "E2"}       \* ErrorCallback functions
Statuses == {"queued", "running", "success", "failed", "cancelled"}
TerminalStatuses == {"success", "failed", "cancelled"}
TaskTypes == {"task_progress", "task_completed", "task_failed"}
OtherTypes == {"connection_established", "ping", "pong", "unknown"}

\* payload of a frame: a TaskProgress, an informational object or null
ProgressPayloads == [kind : {"progress"}, taskId : TaskIds, status : Statuses]
InfoPayload == [kind |-> "info", taskId |-> "undefined", status |-> "undefined"]
NullPayload == [kind |-> "null", taskId |-> "undefined", status |-> "undefined"]
Payloads == ProgressPayloads \cup {InfoPayload, NullPayload}

\* a raw frame: text that JSON.parse accepts (parses) or not. task_progress
\* frames carry every payload, the other kinds the payloads their name suggests.
Frames ==
  [parses : {TRUE}, type : {"task_progress"}, payload : Payloads]
    \cup [parses : {TRUE}, type : {"task_completed"},
          payload : {p \in ProgressPayloads : p.status = "success"}]
    \cup [parses : {TRUE}, type : {"task_failed"},
          payload : {p \in ProgressPayloads : p.status \in {"failed", "cancelled"}}]
    \cup [parses : {TRUE}, type : {"connection_established"}, payload : {InfoPayload}]
    \cup [parses : {TRUE}, type : {"ping", "pong", "unknown"}, payload : {NullPayload}]
    \cup [parses : {FALSE}, type : {"unknown"}, payload : {NullPayload}]

VARIABLES
  urlOk,                    \* new WebSocket(this.url) does not throw
  ws,                       \* this.ws: index into socks, 0 for null
  socks,                    \* every WebSocket object created so far
  reconnectAttempts,
  pingInterval,             \* TRUE while the setInterval handle is set
  isManualClose,
  taskCallbacks,            \* Map taskId -> Set, sets in insertion order
  globalProgressCallbacks,  \* Set, in insertion order
  connectionCallbacks,
  errorCallbacks,
  wsClientInstance,         \* the module's singleton: index into clients, 0 for null
  clients,                  \* every instance getWebSocketClient constructed
  viewTaskId,               \* useTaskProgress: the taskId it was last rendered
                            \* with, "" for null
  viewProgress,             \* useTaskProgress: its progress state
  viewLatest,               \* history: the last event its callback was called
                            \* with since viewTaskId became the current id
  tasks,                    \* useMultiTaskProgress: its tasks state (Map)
  unsubscribeRefs,          \* useMultiTaskProgress: taskId -> the callback its
                            \* stored disposer removes, "" for no entry
  mounted,                  \* the hooks that are mounted
  maxHistory,               \* useGlobalTaskProgress: the cap it was rendered with
  progressHistory,          \* useGlobalTaskProgress: its progressHistory state
  received,                 \* history: every event its callback was called
                            \* with since it was mounted, latest first
  hookIsConnected,          \* useWebSocketConnection: its isConnected state
  hookError,                \* useWebSocketConnection: its error state
  timers,                   \* pending setTimeout reconnects: the delay, the close
                            \* that scheduled it, and whether disconnect() was
                            \* called since
  \* ---- observation (history) variables
  log,                      \* per callback: the <<frame number, via>> it was called with
  due,                      \* per callback: the frames it was registered for at dispatch
  registered,               \* <<taskId, callback, connections lost before>> of
                            \* every subscription made and not removed
  retired,                  \* per task: the callbacks that were subscribed when a
                            \* terminal event of the task was dispatched and have
                            \* not subscribed to it again
  nFrames,                  \* frames handled so far
  schedLog,                 \* delays scheduled since the last successful open
  connSeen,                 \* last value delivered to each connection observer
  last                      \* what the last step did

vars == <<wsClientInstance, clients, viewTaskId, viewProgress, viewLatest, tasks,
          unsubscribeRefs, mounted, maxHistory, progressHistory, received,
          hookIsConnected, hookError, urlOk, ws, socks, reconnectAttempts, pingInterval, isManualClose,
          taskCallbacks, globalProgressCallbacks, connectionCallbacks,
          errorCallbacks, timers, log, due, registered, retired, nFrames,
          schedLog, connSeen, last>>

connVars == <<ws, socks, reconnectAttempts, pingInterval, isManualClose, timers,
              schedLog, connSeen>>
routerVars == <<taskCallbacks, globalProgressCallbacks, log, due, registered,
               retired, nFrames>>
observerVars == <<connectionCallbacks, errorCallbacks>>
singletonVars == <<wsClientInstance, clients>>
viewVars == <<viewTaskId, viewProgress, viewLatest, tasks, unsubscribeRefs>>
historyVars == <<maxHistory, progressHistory, received>>
connHookVars == <<hookIsConnected, hookError>>
hookVars == <<mounted, historyVars, connHookVars>>
clientVars == <<urlOk, connVars, routerVars, observerVars>>

\* ------------------------------------------------- sequence helpers
Range(s) == {s[i] : i \in 1..Len(s)}
Contains(s, x) == x \in Range(s)
SetAdd(s, x) == IF Contains(s, x) THEN s ELSE Append(s, x)
SetDelete(s, x) == SelectSeq(s, LAMBDA y : y # x)

RECURSIVE Sum(_)
Sum(s) == IF s = <<>> THEN 0 ELSE Head(s) + Sum(Tail(s))

RemoveAt(s, i) == SubSeq(s, 1, i - 1) \o SubSeq(s, i + 1, Len(s))

NoLast ==
  [op |-> "init", sock |-> 0, tid |-> "", cb |-> "", status |-> "",
   task |-> <<>>, global |-> <<>>, cleaned |-> FALSE,
   errNotified |-> {}, promise |-> "none", created |-> 0, scheduled |-> 0,
   sent |-> <<>>, origin |-> "", failed |-> FALSE, threw |-> {},
   was |-> "", stale |-> FALSE, inst |-> 0, removed |-> {}]


NoEntry == [has |-> FALSE, set |-> <<>>]
NoProgress == [kind |-> "null"]    \* a null TaskProgress
NoTimer == [delay |-> 0, cause |-> "", stale |-> FALSE]

\* ------------------------------------------------- client: pure parts
\* an idempotence test that compares with the wrong readyState
alreadyOpenWrongState == ws # 0 /\ socks[ws].readyState = "CONNECTING"

\* the test that opens connect(): this.ws?.readyState === WebSocket.OPEN
alreadyOpen == ws # 0 /\ socks[ws].readyState = "OPEN"

\* isConnected(): this.ws?.readyState === WebSocket.OPEN
isConnected == ws # 0 /\ socks[ws].readyState = "OPEN"

\* WebSocket.close(): an open or connecting socket starts closing
close(readyState) ==
  IF readyState \in {"CONNECTING", "OPEN"} THEN "CLOSING" ELSE readyState

\* send(data): written to this.ws only when it is open
send(type, taskId) ==
  IF isConnected THEN <<[type |-> type, taskId |-> taskId, sock |-> ws]>> ELSE <<>>

\* a lookup that ignores the key: every per-task callback, whatever its task
getAnyTask(taskId) ==
  LET all == UNION {Range(taskCallbacks[t].set) : t \in TaskIds}
  IN IF all = {} THEN NoEntry
     ELSE [has |-> TRUE, set |-> SelectSeq(<<"A", "B">>, LAMBDA c : c \in all)]

\* taskCallbacks.get(taskId)
get(taskId) ==
  IF taskId \in TaskIds /\ taskCallbacks[taskId].has
    THEN taskCallbacks[taskId]
    ELSE NoEntry

\* a cleanup test that forgets the cancelled status
IsTerminalNotCancelled(status) == status = "success" \/ status = "failed"

\* the status test that triggers the automatic cleanup
IsTerminal(status) ==
  status = "success" \/ status = "failed" \/ status = "cancelled"

\* index of the first member of cbs that throws, 0 if none does
RECURSIVE FirstThrow(_, _, _)
FirstThrow(cbs, thr, k) ==
  IF k > Len(cbs) THEN 0
  ELSE IF cbs[k] \in thr THEN k
  ELSE FirstThrow(cbs, thr, k + 1)

\* a forEach whose calls are not wrapped in try/catch: the first throw ends it
forEachNoCatch(cbs, thr) ==
  LET k == FirstThrow(cbs, thr, 1)
  IN IF k = 0 THEN [invoked |-> cbs, aborted |-> FALSE]
              ELSE [invoked |-> SubSeq(cbs, 1, k), aborted |-> TRUE]

\* set.forEach(cb => { try { cb(x) } catch { log } }): every member is called;
\* thr are the callbacks whose body throws on this call
forEachCallback(cbs, thr) == [invoked |-> cbs, aborted |-> FALSE]

\* handleTaskProgress(progress): per-task callbacks, then global ones, then the
\* cleanup of a terminal task
handleTaskProgress(progress, thr) ==
  LET own == get(progress.taskId)
      r1 == IF own.has THEN forEachCallback(own.set, thr)
                       ELSE [invoked |-> <<>>, aborted |-> FALSE]
      r2 == IF r1.aborted THEN [invoked |-> <<>>, aborted |-> TRUE]
                          ELSE forEachCallback(globalProgressCallbacks, thr)
  IN [task |-> r1.invoked, global |-> r2.invoked,
      cleaned |-> ~r2.aborted /\ IsTerminal(progress.status)]

NothingHandled == [task |-> <<>>, global |-> <<>>, cleaned |-> FALSE]

\* handleMessage(data): JSON.parse, switch on message.type, everything inside
\* one try/catch. A null payload makes progress.taskId throw (caught here).
handleMessage(frame, thr) ==
  IF ~frame.parses THEN NothingHandled
  ELSE IF frame.type \in TaskTypes
    THEN IF frame.payload.kind = "null" THEN NothingHandled
         ELSE handleTaskProgress(frame.payload, thr)
  ELSE NothingHandled

\* an onerror handler that leaves the promise of connect() alone
rejectNever(promise) == promise

\* reject(error) in ws.onerror: settles the promise of the connect() that
\* created the socket, unless it is settled already
reject(promise) == IF promise = "pending" THEN "rejected" ELSE promise

\* an onclose test that allows one attempt too many
shouldReconnectInclusive ==
  ~isManualClose /\ reconnectAttempts <= maxReconnectAttempts

\* the onclose test that decides whether to reconnect
shouldReconnect == ~isManualClose /\ reconnectAttempts < maxReconnectAttempts

\* delay computed by scheduleReconnect after the counter was incremented
backoffDelay(attempts) == reconnectDelay * 2^(attempts - 1)

\* notifyError(error): every error observer, each call in its own try/catch
notifyError(thr) == Range(forEachCallback(errorCallbacks, thr).invoked)

\* notifyConnectionChange(connected)
notifyConnectionChange(connected) ==
  [o \in ConnObservers |->
     IF Contains(connectionCallbacks, o)
       THEN (IF connected THEN "true" ELSE "false")
       ELSE connSeen[o]]

\* what the catch block of connect() tells the error observers
connectCatchNotifies == {}

\* ------------------------------------------------- initial state
Init ==
  /\ urlOk \in BOOLEAN
  /\ wsClientInstance = 0
  /\ clients = <<>>
  /\ viewTaskId = ""
  /\ viewProgress = NoProgress
  /\ viewLatest = NoProgress
  /\ tasks = [t \in TaskIds |-> NoProgress]
  /\ unsubscribeRefs = [t \in TaskIds |-> ""]
  /\ mounted = {}
  /\ maxHistory = 0
  /\ progressHistory = <<>>
  /\ received = <<>>
  /\ hookIsConnected = FALSE
  /\ hookError = "null"
  /\ ws = 0
  /\ socks = <<>>
  /\ reconnectAttempts = 0
  /\ pingInterval = FALSE
  /\ isManualClose = FALSE
  /\ taskCallbacks = [t \in TaskIds |-> NoEntry]
  /\ globalProgressCallbacks = <<>>
  /\ connectionCallbacks = <<>>
  /\ errorCallbacks = <<>>
  /\ timers = <<>>
  /\ log = [c \in Callbacks |-> <<>>]
  /\ due = [c \in Callbacks |-> <<>>]
  /\ registered = {}
  /\ retired = [t \in TaskIds |-> {}]
  /\ nFrames = 0
  /\ schedLog = <<>>
  /\ connSeen = [o \in ConnObservers |-> "none"]
  /\ last = NoLast

\* ------------------------------------------------- connection manager
\* connect(): the body of the promise executor
connect(op, origin, timer, maxSocks) ==
  IF alreadyOpen
    THEN /\ UNCHANGED <<ws, socks, isManualClose>>
         /\ last' = [NoLast EXCEPT !.op = op, !.origin = origin,
                                   !.stale = timer.stale, !.was = timer.cause,
                                   !.promise = "resolved"]
    ELSE /\ isManualClose' = FALSE
         /\ IF ~urlOk
              THEN /\ UNCHANGED <<ws, socks>>
                   /\ last' = [NoLast EXCEPT !.op = op, !.origin = origin,
                                             !.stale = timer.stale, !.was = timer.cause,
                                             !.promise = "rejected",
                                             !.failed = TRUE,
                                             !.errNotified = connectCatchNotifies]
              ELSE /\ Len(socks) < maxSocks
                   /\ socks' = Append(socks,
                         [readyState |-> "CONNECTING", opened |-> FALSE,
                          promise |-> "pending", origin |-> origin])
                   /\ ws' = Len(socks) + 1
                   /\ last' = [NoLast EXCEPT !.op = op, !.origin = origin,
                                             !.stale = timer.stale, !.was = timer.cause,
                                             !.promise = "pending",
                                             !.created = Len(socks) + 1]

\* the application calls connect()
Connect(maxSocks) ==
  /\ connect("connect", "app", NoTimer, maxSocks)
  /\ UNCHANGED <<singletonVars, viewVars, hookVars, urlOk, reconnectAttempts, pingInterval, timers, schedLog, connSeen>>
  /\ UNCHANGED <<routerVars, observerVars>>

\* the setTimeout callback of scheduleReconnect fires
TimerFire(maxSocks) ==
  \E i \in 1..Len(timers) :
    /\ timers' = RemoveAt(timers, i)
    /\ IF ~isManualClose
         THEN connect("timer", "timer", timers[i], maxSocks)
         ELSE /\ UNCHANGED <<ws, socks, isManualClose>>
              /\ last' = [NoLast EXCEPT !.op = "timer", !.origin = "skipped",
                                        !.stale = timers[i].stale,
                                        !.was = timers[i].cause]
    /\ UNCHANGED <<singletonVars, viewVars, hookVars, urlOk, reconnectAttempts, pingInterval, schedLog, connSeen>>
    /\ UNCHANGED <<routerVars, observerVars>>

\* a disconnect() that closes the socket and keeps the handle to it
DisconnectKeepHandle ==
  /\ isManualClose' = TRUE
  /\ pingInterval' = FALSE
  /\ socks' = IF ws # 0 THEN [socks EXCEPT ![ws].readyState = close(@)] ELSE socks
  /\ UNCHANGED ws
  /\ timers' = [k \in 1..Len(timers) |-> [timers[k] EXCEPT !.stale = TRUE]]
  /\ last' = [NoLast EXCEPT !.op = "disconnect", !.sock = ws,
                            !.origin = IF last.op = "disconnect" THEN "again" ELSE "",
                            !.was = IF ws # 0 THEN socks[ws].readyState ELSE ""]
  /\ UNCHANGED <<singletonVars, viewVars, hookVars, urlOk, reconnectAttempts, schedLog, connSeen>>
  /\ UNCHANGED <<routerVars, observerVars>>

\* a disconnect() that also drops every subscription
DisconnectAndClear ==
  /\ isManualClose' = TRUE
  /\ pingInterval' = FALSE
  /\ IF ws # 0
       THEN /\ socks' = [socks EXCEPT ![ws].readyState = close(@)]
            /\ ws' = 0
       ELSE UNCHANGED <<ws, socks>>
  /\ timers' = [k \in 1..Len(timers) |-> [timers[k] EXCEPT !.stale = TRUE]]
  /\ taskCallbacks' = [t \in TaskIds |-> NoEntry]
  /\ globalProgressCallbacks' = <<>>
  /\ last' = [NoLast EXCEPT !.op = "disconnect", !.sock = ws,
                            !.origin = IF last.op = "disconnect" THEN "again" ELSE "",
                            !.was = IF ws # 0 THEN socks[ws].readyState ELSE ""]
  /\ UNCHANGED <<singletonVars, viewVars, hookVars, urlOk, reconnectAttempts, schedLog, connSeen, observerVars>>
  /\ UNCHANGED <<log, due, registered, retired, nFrames>>

\* disconnect()
Disconnect ==
  /\ isManualClose' = TRUE
  /\ pingInterval' = FALSE
  /\ IF ws # 0
       THEN /\ socks' = [socks EXCEPT ![ws].readyState = close(@)]
            /\ ws' = 0
       ELSE UNCHANGED <<ws, socks>>
  /\ timers' = [k \in 1..Len(timers) |-> [timers[k] EXCEPT !.stale = TRUE]]
  /\ last' = [NoLast EXCEPT !.op = "disconnect", !.sock = ws,
                            !.origin = IF last.op = "disconnect" THEN "again" ELSE "",
                            !.was = IF ws # 0 THEN socks[ws].readyState ELSE ""]
  /\ UNCHANGED <<singletonVars, viewVars, hookVars, urlOk, reconnectAttempts, schedLog, connSeen>>
  /\ UNCHANGED <<routerVars, observerVars>>

\* an onopen handler that leaves the reconnect-attempt counter alone
SockOpenKeepAttempts ==
  \E i \in 1..Len(socks) :
    /\ socks[i].readyState = "CONNECTING"
    /\ socks' = [socks EXCEPT ![i].readyState = "OPEN", ![i].opened = TRUE,
                              ![i].promise = "resolved"]
    /\ UNCHANGED <<reconnectAttempts, schedLog>>
    /\ pingInterval' = TRUE
    /\ connSeen' = notifyConnectionChange(TRUE)
    /\ last' = [NoLast EXCEPT !.op = "open", !.sock = i, !.origin = socks[i].origin,
                              !.promise = "resolved"]
    /\ hookIsConnected' = (Contains(connectionCallbacks, "HC") \/ hookIsConnected)
    /\ hookError' = IF Contains(connectionCallbacks, "HC") THEN "null" ELSE hookError
    /\ UNCHANGED <<singletonVars, viewVars, mounted, historyVars, urlOk, ws,
                   isManualClose, timers>>
    /\ UNCHANGED <<routerVars, observerVars>>

\* the transport opens socket i: its onopen handler runs
SockOpen ==
  \E i \in 1..Len(socks) :
    /\ socks[i].readyState = "CONNECTING"
    /\ socks' = [socks EXCEPT ![i].readyState = "OPEN", ![i].opened = TRUE,
                              ![i].promise = "resolved"]
    /\ reconnectAttempts' = 0
    /\ schedLog' = <<>>
    /\ pingInterval' = TRUE
    /\ connSeen' = notifyConnectionChange(TRUE)
    /\ last' = [NoLast EXCEPT !.op = "open", !.sock = i, !.origin = socks[i].origin,
                              !.promise = "resolved"]
    /\ hookIsConnected' = (Contains(connectionCallbacks, "HC") \/ hookIsConnected)
    /\ hookError' = IF Contains(connectionCallbacks, "HC") THEN "null" ELSE hookError
    /\ UNCHANGED <<singletonVars, viewVars, mounted, historyVars, urlOk, ws,
                   isManualClose, timers>>
    /\ UNCHANGED <<routerVars, observerVars>>

\* history: what the close of socket i is: the end of a failed opening, of a
\* connection disconnect() closed, or the loss of an open connection
CloseKind(i) ==
  IF ~socks[i].opened THEN "failed"
  ELSE IF socks[i].readyState = "CLOSING" THEN "manual"
  ELSE "lost"

\* ws.onclose of socket i: stop the heartbeat, notify, maybe scheduleReconnect()
onclose(i) ==
  /\ pingInterval' = FALSE
  /\ connSeen' = notifyConnectionChange(FALSE)
  /\ IF shouldReconnect
       THEN /\ reconnectAttempts' = reconnectAttempts + 1
            /\ timers' = Append(timers, [delay |-> backoffDelay(reconnectAttempts + 1),
                                         cause |-> CloseKind(i), stale |-> FALSE])
            /\ schedLog' = Append(schedLog, backoffDelay(reconnectAttempts + 1))
       ELSE UNCHANGED <<reconnectAttempts, timers, schedLog>>

\* the transport closes socket i. A socket that never opened fails: its error
\* event precedes its close event; an opened socket closes with or without one.
SockClosed ==
  \E i \in 1..Len(socks), withError \in BOOLEAN, thr \in SUBSET ErrObservers :
    /\ socks[i].readyState \in {"CONNECTING", "OPEN", "CLOSING"}
    /\ ~socks[i].opened => withError
    /\ thr \subseteq (IF withError THEN Range(errorCallbacks) ELSE {})
    /\ socks' = [socks EXCEPT ![i].readyState = "CLOSED",
                              ![i].promise = IF withError THEN reject(@) ELSE @]
    /\ onclose(i)
    /\ last' = [NoLast EXCEPT !.op = "close", !.sock = i, !.origin = socks[i].origin,
                  !.failed = ~socks[i].opened, !.was = socks[i].readyState,
                  !.promise = IF withError /\ socks[i].promise = "pending"
                                THEN reject(socks[i].promise) ELSE "none",
                  !.errNotified = IF withError THEN notifyError(thr) ELSE {},
                  !.scheduled = IF shouldReconnect
                                  THEN backoffDelay(reconnectAttempts + 1) ELSE 0]
    /\ hookIsConnected' = (~Contains(connectionCallbacks, "HC") /\ hookIsConnected)
    /\ hookError' = IF withError /\ Contains(errorCallbacks, "HE")
                      THEN "error" ELSE hookError
    /\ UNCHANGED <<singletonVars, viewVars, mounted, historyVars, urlOk, ws,
                   isManualClose>>
    /\ UNCHANGED <<routerVars, observerVars>>

\* the heartbeat interval fires
PingTick ==
  /\ pingInterval
  /\ last' = [NoLast EXCEPT !.op = "ping", !.sent = send("ping", "")]
  /\ UNCHANGED <<singletonVars, viewVars, hookVars, urlOk, connVars, routerVars, observerVars>>

\* ------------------------------------------------- subscription router
\* history: the connections lost so far
Drops == Cardinality({i \in 1..Len(socks) : socks[i].readyState = "CLOSED"})

\* history: callback c was subscribed to task t and not removed since
Registered(t, c) == \E r \in registered : r[1] = t /\ r[2] = c

\* a subscribeToTask that calls the new callback with the event handled last
subscribeToTaskReplay(tids, cbs) ==
  \E t \in tids, c \in cbs :
    /\ taskCallbacks' = [taskCallbacks EXCEPT
                           ![t] = [has |-> TRUE, set |-> SetAdd(@.set, c)]]
    /\ registered' = IF Registered(t, c) THEN registered
                      ELSE registered \cup {<<t, c, Drops>>}
    /\ retired' = [retired EXCEPT ![t] = @ \ {c}]
    /\ log' = [log EXCEPT ![c] = IF nFrames > 0 THEN Append(@, <<nFrames, "task">>)
                                                 ELSE @]
    /\ last' = [NoLast EXCEPT !.op = "subscribe", !.tid = t, !.cb = c,
                              !.sent = send("subscribe", t)]
    /\ UNCHANGED <<singletonVars, viewVars, hookVars, urlOk, connVars, observerVars>>
    /\ UNCHANGED <<globalProgressCallbacks, due, nFrames>>

\* subscribeToTask(taskId, callback); the disposer it returns is
\* unsubscribeFromTask(taskId, callback)
subscribeToTask(tids, cbs) ==
  \E t \in tids, c \in cbs :
    /\ taskCallbacks' = [taskCallbacks EXCEPT
                           ![t] = [has |-> TRUE, set |-> SetAdd(@.set, c)]]
    /\ registered' = IF Registered(t, c) THEN registered
                      ELSE registered \cup {<<t, c, Drops>>}
    /\ retired' = [retired EXCEPT ![t] = @ \ {c}]
    /\ last' = [NoLast EXCEPT !.op = "subscribe", !.tid = t, !.cb = c,
                              !.sent = send("subscribe", t)]
    /\ UNCHANGED <<singletonVars, viewVars, hookVars, urlOk, connVars, observerVars>>
    /\ UNCHANGED <<globalProgressCallbacks, log, due, nFrames>>

\* an unsubscribe that leaves the emptied set in the map
unsubscribeKeepEntry(tids, cbs) ==
  \E t \in tids, c \in cbs :
    LET callbacks == get(t)
    IN /\ taskCallbacks' =
            IF ~callbacks.has THEN taskCallbacks
            ELSE [taskCallbacks EXCEPT ![t].set = SetDelete(callbacks.set, c)]
       /\ registered' = {r \in registered : ~(r[1] = t /\ r[2] = c)}
       /\ UNCHANGED retired
       /\ last' = [NoLast EXCEPT !.op = "unsubscribe", !.tid = t, !.cb = c]
       /\ UNCHANGED <<singletonVars, viewVars, hookVars, urlOk, connVars, observerVars>>
       /\ UNCHANGED <<globalProgressCallbacks, log, due, nFrames>>

\* unsubscribeFromTask(taskId, callback)
unsubscribeFromTask(tids, cbs) ==
  \E t \in tids, c \in cbs :
    LET callbacks == get(t)
        rest == SetDelete(callbacks.set, c)
        emptied == callbacks.has /\ rest = <<>>
    IN /\ taskCallbacks' =
            IF ~callbacks.has THEN taskCallbacks
            ELSE IF emptied THEN [taskCallbacks EXCEPT ![t] = NoEntry]
            ELSE [taskCallbacks EXCEPT ![t].set = rest]
       /\ registered' = {r \in registered : ~(r[1] = t /\ r[2] = c)}
       /\ UNCHANGED retired
       /\ last' = [NoLast EXCEPT !.op = "unsubscribe", !.tid = t, !.cb = c,
                     !.sent = IF emptied THEN send("unsubscribe", t) ELSE <<>>]
       /\ UNCHANGED <<singletonVars, viewVars, hookVars, urlOk, connVars, observerVars>>
       /\ UNCHANGED <<globalProgressCallbacks, log, due, nFrames>>

\* onProgress(callback) and the disposer it returns
onProgress(cbs) ==
  \E c \in cbs, add \in BOOLEAN :
    /\ globalProgressCallbacks' =
         IF add THEN SetAdd(globalProgressCallbacks, c)
                ELSE SetDelete(globalProgressCallbacks, c)
    /\ last' = [NoLast EXCEPT !.op = IF add THEN "onProgress" ELSE "offProgress",
                              !.cb = c]
    /\ UNCHANGED <<singletonVars, viewVars, hookVars, urlOk, connVars, observerVars>>
    /\ UNCHANGED <<taskCallbacks, log, due, registered, retired, nFrames>>

\* onConnectionChange(callback) and the disposer it returns
onConnectionChange ==
  \E o \in ConnObservers, add \in BOOLEAN :
    /\ connectionCallbacks' =
         IF add THEN SetAdd(connectionCallbacks, o)
                ELSE SetDelete(connectionCallbacks, o)
    /\ last' = [NoLast EXCEPT !.op = "onConnectionChange", !.cb = o]
    /\ UNCHANGED <<singletonVars, viewVars, hookVars, urlOk, connVars, routerVars, errorCallbacks>>

\* onError(callback) and the disposer it returns
onError ==
  \E e \in ErrObservers, add \in BOOLEAN :
    /\ errorCallbacks' =
         IF add THEN SetAdd(errorCallbacks, e) ELSE SetDelete(errorCallbacks, e)
    /\ last' = [NoLast EXCEPT !.op = "onError", !.cb = e]
    /\ UNCHANGED <<singletonVars, viewVars, hookVars, urlOk, connVars, routerVars, connectionCallbacks>>

\* the callbacks a frame can reach: only a callback that is called can throw
Targets(frame) ==
  Range(get(frame.payload.taskId).set) \cup Range(globalProgressCallbacks)

\* how handleMessage classifies a frame
FrameClass(frame) ==
  IF ~frame.parses THEN "unparsable"
  ELSE IF frame.type \in TaskTypes THEN "task" ELSE "other"

\* entries appended to a callback's log by one dispatch
Calls(c, n, h) ==
  (IF Contains(h.task, c) THEN << <<n, "task">> >> ELSE <<>>)
    \o (IF Contains(h.global, c) THEN << <<n, "global">> >> ELSE <<>>)

\* ws.onmessage of socket i with a frame: handleMessage(event.data)
onmessage(i, frame, thr) ==
  LET h == handleMessage(frame, thr)
      p == frame.payload
      isEvent == FrameClass(frame) = "task" /\ p.kind = "progress"
  IN /\ taskCallbacks' =
          IF h.cleaned THEN [taskCallbacks EXCEPT ![p.taskId] = NoEntry]
                       ELSE taskCallbacks
     /\ registered' =
          IF isEvent /\ p.status \in TerminalStatuses
            THEN {r \in registered : r[1] # p.taskId} ELSE registered
     /\ retired' =
          IF isEvent /\ p.status \in TerminalStatuses
            THEN [retired EXCEPT ![p.taskId] =
                    @ \cup {c \in Callbacks : Registered(p.taskId, c)}]
            ELSE retired
     /\ last' = [NoLast EXCEPT !.op = "message", !.sock = i,
                   !.tid = p.taskId, !.status = p.status,
                   !.origin = FrameClass(frame),
                   !.task = h.task, !.global = h.global,
                   !.cleaned = h.cleaned, !.threw = thr]
     /\ UNCHANGED <<singletonVars, mounted, connHookVars, urlOk, connVars,
                    observerVars, globalProgressCallbacks>>

\* the transport delivers a frame on socket i (only an open socket delivers)
SockMessage(frames) ==
  \E i \in 1..Len(socks), frame \in frames, thr \in SUBSET Callbacks :
    /\ socks[i].readyState = "OPEN"
    /\ thr \subseteq Targets(frame)
    /\ onmessage(i, frame, thr)
    /\ UNCHANGED <<log, due, nFrames, viewVars, historyVars>>

\* the same step, with the calls it makes recorded in log and due
SockMessageLogged(maxFrames, frames) ==
  \E i \in 1..Len(socks), frame \in frames, thr \in SUBSET Callbacks :
    /\ socks[i].readyState = "OPEN"
    /\ nFrames < maxFrames
    /\ thr \subseteq Targets(frame)
    /\ onmessage(i, frame, thr)
    /\ UNCHANGED <<viewVars, historyVars>>
    /\ LET h == handleMessage(frame, thr)
           n == nFrames + 1
           p == frame.payload
       IN /\ nFrames' = n
          /\ log' = [c \in Callbacks |-> log[c] \o Calls(c, n, h)]
          /\ due' = [c \in Callbacks |->
                       IF FrameClass(frame) = "task" /\ p.kind = "progress"
                          /\ Registered(p.taskId, c)
                         THEN Append(due[c], n) ELSE due[c]]

\* ------------------------------------------------- consumption hooks
Percentages == {40, 100}           \* TaskProgress.progress values
HistoryCaps == {1, 2}              \* maxHistory values

\* a TaskProgress as the hooks read it; result comes with success, error with
\* failed
ViewEvent(t, st, pct) ==
  [kind |-> "progress", taskId |-> t, status |-> st, progress |-> pct,
   result |-> IF st = "success" THEN "image" ELSE "undefined",
   error |-> IF st = "failed" THEN "error text" ELSE "undefined"]

\* task_progress frames carrying such events
ViewFrames ==
  {[parses |-> TRUE, type |-> "task_progress", payload |-> ViewEvent(t, st, pct)] :
     t \in TaskIds, st \in Statuses, pct \in Percentages}

\* the per-task map after subscribeToTask(t, c)
mapSubscribe(map, t, c) ==
  [map EXCEPT ![t] = [has |-> TRUE, set |-> SetAdd(@.set, c)]]

\* the per-task map after unsubscribeFromTask(t, c)
mapUnsubscribe(map, t, c) ==
  IF ~map[t].has THEN map
  ELSE IF SetDelete(map[t].set, c) = <<>> THEN [map EXCEPT ![t] = NoEntry]
  ELSE [map EXCEPT ![t].set = SetDelete(@, c)]

\* history: the subscriptions on record after these calls
regSubscribe(reg, t, c) ==
  IF \E r \in reg : r[1] = t /\ r[2] = c THEN reg ELSE reg \cup {<<t, c, Drops>>}

regUnsubscribe(reg, t, c) == {r \in reg : ~(r[1] = t /\ r[2] = c)}

\* what useTaskProgress returns for the progress state it holds
useTaskProgressResult(p) ==
  [status |-> IF p = NoProgress THEN "null" ELSE p.status,
   percentage |-> IF p = NoProgress THEN 0 ELSE p.progress,
   isRunning |-> p # NoProgress /\ (p.status = "running" \/ p.status = "queued"),
   isCompleted |-> p # NoProgress /\ p.status = "success",
   isFailed |-> p # NoProgress /\ p.status = "failed",
   result |-> IF p = NoProgress \/ p.result = "undefined" THEN "null" ELSE p.result,
   error |-> IF p = NoProgress \/ p.error = "undefined" THEN "null" ELSE p.error]

\* useTaskProgress is rendered with another taskId: the cleanup of its effect
\* runs the disposer of the previous subscription, then the effect runs again
useTaskProgress ==
  \E id \in TaskIds \cup {""} :
    LET cleaned == IF viewTaskId # "" THEN mapUnsubscribe(taskCallbacks, viewTaskId, "H")
                                      ELSE taskCallbacks
        regCleaned == IF viewTaskId # "" THEN regUnsubscribe(registered, viewTaskId, "H")
                                         ELSE registered
    IN /\ id # viewTaskId
       /\ viewTaskId' = id
       /\ viewProgress' = IF id = "" THEN NoProgress ELSE viewProgress
       /\ viewLatest' = NoProgress
       /\ taskCallbacks' = IF id = "" THEN cleaned ELSE mapSubscribe(cleaned, id, "H")
       /\ registered' = IF id = "" THEN regCleaned ELSE regSubscribe(regCleaned, id, "H")
       /\ last' = [NoLast EXCEPT !.op = "useTaskProgress", !.tid = id,
                                 !.was = viewTaskId]
       /\ UNCHANGED <<singletonVars, hookVars, tasks, unsubscribeRefs, urlOk, connVars,
                      observerVars>>
       /\ UNCHANGED <<globalProgressCallbacks, log, due, retired, nFrames>>

\* the callbacks useMultiTaskProgress registers: a new function per call
MultiCallbacks == {"M1", "M2"}

\* a function not yet registered for task t
NewCallback(t) ==
  IF "M1" \notin Range(taskCallbacks[t].set) THEN "M1" ELSE "M2"

\* a subscribe that does not look at unsubscribeRefs first
subscribeNoCheck ==
  \E t \in TaskIds :
    /\ taskCallbacks' = mapSubscribe(taskCallbacks, t, NewCallback(t))
    /\ registered' = regSubscribe(registered, t, NewCallback(t))
    /\ unsubscribeRefs' = [unsubscribeRefs EXCEPT ![t] = NewCallback(t)]
    /\ last' = [NoLast EXCEPT !.op = "multi.subscribe", !.tid = t,
                  !.origin = IF unsubscribeRefs[t] # "" THEN "again" ELSE ""]
    /\ UNCHANGED <<singletonVars, hookVars, viewTaskId, viewProgress, viewLatest, tasks,
                   urlOk, connVars, observerVars>>
    /\ UNCHANGED <<globalProgressCallbacks, log, due, retired, nFrames>>

\* useMultiTaskProgress: subscribe(taskId)
subscribe ==
  \E t \in TaskIds :
    /\ IF unsubscribeRefs[t] # ""
         THEN UNCHANGED <<taskCallbacks, registered, unsubscribeRefs>>
         ELSE /\ taskCallbacks' = mapSubscribe(taskCallbacks, t, NewCallback(t))
              /\ registered' = regSubscribe(registered, t, NewCallback(t))
              /\ unsubscribeRefs' = [unsubscribeRefs EXCEPT ![t] = NewCallback(t)]
    /\ last' = [NoLast EXCEPT !.op = "multi.subscribe", !.tid = t,
                  !.origin = IF unsubscribeRefs[t] # "" THEN "again" ELSE ""]
    /\ UNCHANGED <<singletonVars, hookVars, viewTaskId, viewProgress, viewLatest, tasks,
                   urlOk, connVars, observerVars>>
    /\ UNCHANGED <<globalProgressCallbacks, log, due, retired, nFrames>>

\* useMultiTaskProgress: unsubscribe(taskId)
unsubscribe ==
  \E t \in TaskIds :
    /\ IF unsubscribeRefs[t] # ""
         THEN /\ taskCallbacks' = mapUnsubscribe(taskCallbacks, t, unsubscribeRefs[t])
              /\ registered' = regUnsubscribe(registered, t, unsubscribeRefs[t])
              /\ unsubscribeRefs' = [unsubscribeRefs EXCEPT ![t] = ""]
         ELSE UNCHANGED <<taskCallbacks, registered, unsubscribeRefs>>
    /\ tasks' = [tasks EXCEPT ![t] = NoProgress]
    /\ last' = [NoLast EXCEPT !.op = "multi.unsubscribe", !.tid = t,
                  !.origin = IF tasks[t] # NoProgress THEN "entry" ELSE ""]
    /\ UNCHANGED <<singletonVars, hookVars, viewTaskId, viewProgress, viewLatest,
                   urlOk, connVars, observerVars>>
    /\ UNCHANGED <<globalProgressCallbacks, log, due, retired, nFrames>>

\* the entries clearCompleted drops: status success or failed
Completed(t) ==
  tasks[t] # NoProgress /\ ~(tasks[t].status # "success" /\ tasks[t].status # "failed")

\* useMultiTaskProgress: clearCompleted()
clearCompleted ==
  LET unsub == {t \in TaskIds : Completed(t) /\ unsubscribeRefs[t] # ""}
  IN /\ tasks' = [t \in TaskIds |-> IF Completed(t) THEN NoProgress ELSE tasks[t]]
     /\ taskCallbacks' =
          [t \in TaskIds |->
             IF t \in unsub
               THEN mapUnsubscribe(taskCallbacks, t, unsubscribeRefs[t])[t]
               ELSE taskCallbacks[t]]
     /\ registered' =
          {r \in registered : ~(r[1] \in unsub /\ r[2] = unsubscribeRefs[r[1]])}
     /\ unsubscribeRefs' =
          [t \in TaskIds |-> IF t \in unsub THEN "" ELSE unsubscribeRefs[t]]
     /\ last' = [NoLast EXCEPT !.op = "clearCompleted"]
     /\ UNCHANGED <<singletonVars, hookVars, viewTaskId, viewProgress, viewLatest,
                    urlOk, connVars, observerVars>>
     /\ UNCHANGED <<globalProgressCallbacks, log, due, retired, nFrames>>

\* the counts useMultiTaskProgress returns
runningCount ==
  Cardinality({t \in TaskIds : tasks[t] # NoProgress
                 /\ (tasks[t].status = "running" \/ tasks[t].status = "queued")})
completedCount ==
  Cardinality({t \in TaskIds : tasks[t] # NoProgress /\ tasks[t].status = "success"})
failedCount ==
  Cardinality({t \in TaskIds : tasks[t] # NoProgress /\ tasks[t].status = "failed"})

\* a slice that keeps one entry more than the end index says
sliceInclusive(a, start, end) ==
  LET n == Len(a)
      e == IF end < 0 THEN (IF n + end < 0 THEN 0 ELSE n + end)
           ELSE IF end + 1 > n THEN n ELSE end + 1
  IN SubSeq(a, start + 1, e)

\* Array.prototype.slice(start, end) for start >= 0: a negative end counts from
\* the end of the array
slice(a, start, end) ==
  LET n == Len(a)
      e == IF end < 0 THEN (IF n + end < 0 THEN 0 ELSE n + end)
           ELSE IF end > n THEN n ELSE end
  IN SubSeq(a, start + 1, e)

\* useGlobalTaskProgress(maxHistory) is mounted: its effect registers the
\* callback with onProgress
useGlobalTaskProgress ==
  \E cap \in HistoryCaps :
    /\ "global" \notin mounted
    /\ mounted' = mounted \cup {"global"}
    /\ maxHistory' = cap
    /\ progressHistory' = <<>>
    /\ received' = <<>>
    /\ globalProgressCallbacks' = SetAdd(globalProgressCallbacks, "G")
    /\ last' = [NoLast EXCEPT !.op = "useGlobalTaskProgress", !.created = cap]
    /\ UNCHANGED <<singletonVars, viewVars, connHookVars, urlOk, connVars, observerVars>>
    /\ UNCHANGED <<taskCallbacks, log, due, registered, retired, nFrames>>

\* what useGlobalTaskProgress returns
latestProgress == IF progressHistory = <<>> THEN NoProgress ELSE progressHistory[1]
allProgress == progressHistory

\* the transport delivers a frame on socket i and the callbacks of the hooks
\* run: setProgress(taskProgress), setTasks(prev => prev with taskId -> progress),
\* setProgressHistory(prev => [progress, ...prev].slice(0, maxHistory))
SockMessageViews(frames) ==
  \E i \in 1..Len(socks), frame \in frames :
    LET h == handleMessage(frame, {})
        p == frame.payload
    IN /\ socks[i].readyState = "OPEN"
       /\ onmessage(i, frame, {})
       /\ viewProgress' = IF Contains(h.task, "H") THEN p ELSE viewProgress
       /\ viewLatest' = IF Contains(h.task, "H") THEN p ELSE viewLatest
       /\ tasks' = IF Range(h.task) \cap MultiCallbacks # {}
                     THEN [tasks EXCEPT ![p.taskId] = p] ELSE tasks
       /\ progressHistory' =
            IF Contains(h.global, "G")
              THEN slice(<<p>> \o progressHistory, 0, maxHistory)
              ELSE progressHistory
       /\ received' = IF Contains(h.global, "G") THEN <<p>> \o received ELSE received
       /\ UNCHANGED <<viewTaskId, unsubscribeRefs, maxHistory, log, due, nFrames>>

\* ------------------------------------------------- callbacks that subscribe
\* Set.prototype.forEach over a set that the callbacks extend while it runs:
\* a member added during the iteration is visited too. resub are the callbacks
\* whose body calls subscribeToTask(progress.taskId, cb2); the result is the
\* set after the iteration, which is also the sequence of the calls made
RECURSIVE forEachLive(_, _, _, _)
forEachLive(set, k, resub, cb2) ==
  IF k > Len(set) THEN set
  ELSE forEachLive(IF set[k] \in resub THEN SetAdd(set, cb2) ELSE set,
                   k + 1, resub, cb2)

\* handleTaskProgress(progress) when callbacks in resub call
\* subscribeToTask(progress.taskId, cb2) from their body: the per-task
\* iteration, the global iteration, then the cleanup of a terminal task
handleTaskProgressReentrant(progress, resub, cb2) ==
  LET own == get(progress.taskId)
      visited == IF own.has THEN forEachLive(own.set, 1, resub, cb2) ELSE <<>>
      taskSubscribes == Range(visited) \cap resub # {}
      afterTask == IF own.has
                     THEN [has |-> TRUE, set |-> visited]
                     ELSE NoEntry
      globalSubscribes == Range(globalProgressCallbacks) \cap resub # {}
      afterGlobal == IF globalSubscribes
                       THEN [has |-> TRUE, set |-> SetAdd(afterTask.set, cb2)]
                       ELSE afterTask
  IN [task |-> visited, global |-> globalProgressCallbacks,
      cleaned |-> IsTerminal(progress.status),
      atCleanup |-> afterGlobal,
      entry |-> IF IsTerminal(progress.status) THEN NoEntry ELSE afterGlobal,
      subscribed |-> taskSubscribes \/ globalSubscribes]

\* the transport delivers a progress event on socket i, and the callbacks in
\* resub subscribe cb2 to the event's task when they are called
SockMessageReentrant(frames) ==
  \E i \in 1..Len(socks), frame \in frames, resub \in SUBSET Callbacks,
     cb2 \in Callbacks :
    LET p == frame.payload
        h == handleTaskProgressReentrant(p, resub, cb2)
    IN /\ socks[i].readyState = "OPEN"
       /\ resub \subseteq Targets(frame)
       /\ taskCallbacks' = [taskCallbacks EXCEPT ![p.taskId] = h.entry]
       /\ registered' =
            IF h.cleaned THEN {r \in registered : r[1] # p.taskId}
            ELSE IF h.subscribed THEN regSubscribe(registered, p.taskId, cb2)
            ELSE registered
       /\ retired' =
            IF h.cleaned
              THEN [retired EXCEPT ![p.taskId] = @ \cup Range(h.atCleanup.set)]
            ELSE IF h.subscribed THEN [retired EXCEPT ![p.taskId] = @ \ {cb2}]
            ELSE retired
       /\ last' = [NoLast EXCEPT !.op = "message", !.sock = i,
                     !.tid = p.taskId, !.status = p.status,
                     !.origin = FrameClass(frame),
                     !.task = h.task, !.global = h.global, !.cleaned = h.cleaned,
                     !.cb = IF h.subscribed THEN cb2 ELSE "",
                     !.sent = IF h.subscribed THEN send("subscribe", p.taskId)
                                               ELSE <<>>]
       /\ UNCHANGED <<singletonVars, viewVars, hookVars, urlOk, connVars, observerVars>>
       /\ UNCHANGED <<globalProgressCallbacks, log, due, nFrames>>

\* ------------------------------------------------- hooks: mount and unmount
\* the registrations of callback c in the per-task map
RegisteredFor(c) == {t \in TaskIds : c \in Range(taskCallbacks[t].set)}

\* useTaskProgress(taskId) is mounted: its effect runs for the first time
useTaskProgressMount ==
  \E id \in TaskIds \cup {""} :
    /\ "task" \notin mounted
    /\ mounted' = mounted \cup {"task"}
    /\ viewTaskId' = id
    /\ viewProgress' = NoProgress
    /\ viewLatest' = NoProgress
    /\ taskCallbacks' = IF id = "" THEN taskCallbacks
                         ELSE mapSubscribe(taskCallbacks, id, "H")
    /\ registered' = IF id = "" THEN registered ELSE regSubscribe(registered, id, "H")
    /\ last' = [NoLast EXCEPT !.op = "mount", !.origin = "task", !.tid = id]
    /\ UNCHANGED <<singletonVars, historyVars, connHookVars, tasks, unsubscribeRefs,
                   urlOk, connVars, observerVars>>
    /\ UNCHANGED <<globalProgressCallbacks, log, due, retired, nFrames>>

\* useTaskProgress is unmounted: the cleanup of its effect runs the disposer
useTaskProgressUnmount ==
  /\ "task" \in mounted
  /\ mounted' = mounted \ {"task"}
  /\ viewTaskId' = ""
  /\ viewProgress' = NoProgress
  /\ viewLatest' = NoProgress
  /\ taskCallbacks' = IF viewTaskId = "" THEN taskCallbacks
                       ELSE mapUnsubscribe(taskCallbacks, viewTaskId, "H")
  /\ registered' = IF viewTaskId = "" THEN registered
                    ELSE regUnsubscribe(registered, viewTaskId, "H")
  /\ last' = [NoLast EXCEPT !.op = "unmount", !.origin = "task", !.tid = viewTaskId,
                !.removed = {<<t, "H">> : t \in RegisteredFor("H") \cap {viewTaskId}}]
  /\ UNCHANGED <<singletonVars, historyVars, connHookVars, tasks, unsubscribeRefs,
                 urlOk, connVars, observerVars>>
  /\ UNCHANGED <<globalProgressCallbacks, log, due, retired, nFrames>>

\* useMultiTaskProgress() is mounted
useMultiTaskProgress ==
  /\ "multi" \notin mounted
  /\ mounted' = mounted \cup {"multi"}
  /\ tasks' = [t \in TaskIds |-> NoProgress]
  /\ unsubscribeRefs' = [t \in TaskIds |-> ""]
  /\ last' = [NoLast EXCEPT !.op = "mount", !.origin = "multi"]
  /\ UNCHANGED <<singletonVars, historyVars, connHookVars, viewTaskId, viewProgress,
                 viewLatest, clientVars>>

\* an unmount that forgets the disposers without calling them
useMultiTaskProgressUnmountNoUnsub ==
  /\ "multi" \in mounted
  /\ mounted' = mounted \ {"multi"}
  /\ tasks' = [t \in TaskIds |-> NoProgress]
  /\ unsubscribeRefs' = [t \in TaskIds |-> ""]
  /\ last' = [NoLast EXCEPT !.op = "unmount", !.origin = "multi"]
  /\ UNCHANGED <<singletonVars, historyVars, connHookVars, viewTaskId, viewProgress,
                 viewLatest, clientVars>>

\* useMultiTaskProgress is unmounted: its cleanup calls every stored disposer
\* and clears unsubscribeRefs
useMultiTaskProgressUnmount ==
  /\ "multi" \in mounted
  /\ mounted' = mounted \ {"multi"}
  /\ tasks' = [t \in TaskIds |-> NoProgress]
  /\ taskCallbacks' =
       [t \in TaskIds |->
          IF unsubscribeRefs[t] # ""
            THEN mapUnsubscribe(taskCallbacks, t, unsubscribeRefs[t])[t]
            ELSE taskCallbacks[t]]
  /\ registered' = {r \in registered : r[2] # unsubscribeRefs[r[1]]}
  /\ unsubscribeRefs' = [t \in TaskIds |-> ""]
  /\ last' = [NoLast EXCEPT !.op = "unmount", !.origin = "multi",
                !.removed = {<<t, unsubscribeRefs[t]>> :
                               t \in {u \in TaskIds : unsubscribeRefs[u] # "" /\
                                        u \in RegisteredFor(unsubscribeRefs[u])}}]
  /\ UNCHANGED <<singletonVars, historyVars, connHookVars, viewTaskId, viewProgress,
                 viewLatest, urlOk, connVars, observerVars>>
  /\ UNCHANGED <<globalProgressCallbacks, log, due, retired, nFrames>>

\* useGlobalTaskProgress is unmounted: the cleanup of its effect runs the disposer
useGlobalTaskProgressUnmount ==
  /\ "global" \in mounted
  /\ mounted' = mounted \ {"global"}
  /\ globalProgressCallbacks' = SetDelete(globalProgressCallbacks, "G")
  /\ maxHistory' = 0
  /\ progressHistory' = <<>>
  /\ received' = <<>>
  /\ last' = [NoLast EXCEPT !.op = "unmount", !.origin = "global",
                !.removed = {"G"} \cap Range(globalProgressCallbacks)]
  /\ UNCHANGED <<singletonVars, viewVars, connHookVars, urlOk, connVars, observerVars>>
  /\ UNCHANGED <<taskCallbacks, log, due, registered, retired, nFrames>>

\* useWebSocketConnection(autoConnect) is mounted: its effect registers the two
\* observers and, with autoConnect, calls connect(); a connect() that rejects
\* at once ends in setError(err)
useWebSocketConnection(maxSocks) ==
  \E autoConnect \in BOOLEAN :
    /\ "conn" \notin mounted
    /\ mounted' = mounted \cup {"conn"}
    /\ connectionCallbacks' = SetAdd(connectionCallbacks, "HC")
    /\ errorCallbacks' = SetAdd(errorCallbacks, "HE")
    /\ hookIsConnected' = FALSE
    /\ IF autoConnect
         THEN /\ connect("mount", "hook", NoTimer, maxSocks)
              /\ hookError' = IF ~alreadyOpen /\ ~urlOk THEN "error" ELSE "null"
         ELSE /\ UNCHANGED <<ws, socks, isManualClose>>
              /\ hookError' = "null"
              /\ last' = [NoLast EXCEPT !.op = "mount", !.origin = "conn"]
    /\ UNCHANGED <<singletonVars, viewVars, historyVars, urlOk, reconnectAttempts,
                   pingInterval, timers, schedLog, connSeen, routerVars>>

\* useWebSocketConnection is unmounted: the cleanup of its effect runs both
\* disposers
useWebSocketConnectionUnmount ==
  /\ "conn" \in mounted
  /\ mounted' = mounted \ {"conn"}
  /\ connectionCallbacks' = SetDelete(connectionCallbacks, "HC")
  /\ errorCallbacks' = SetDelete(errorCallbacks, "HE")
  /\ hookIsConnected' = FALSE
  /\ hookError' = "null"
  /\ last' = [NoLast EXCEPT !.op = "unmount", !.origin = "conn",
                !.removed = ({"HC"} \cap Range(connectionCallbacks))
                              \cup ({"HE"} \cap Range(errorCallbacks))]
  /\ UNCHANGED <<singletonVars, viewVars, historyVars, urlOk, connVars, routerVars>>

\* the connect() the hook returns: setError(null), then connect()
hookConnect(maxSocks) ==
  /\ "conn" \in mounted
  /\ connect("connect", "hook", NoTimer, maxSocks)
  /\ hookError' = IF ~alreadyOpen /\ ~urlOk THEN "error" ELSE "null"
  /\ UNCHANGED <<singletonVars, viewVars, mounted, historyVars, hookIsConnected,
                 urlOk, reconnectAttempts, pingInterval, timers, schedLog, connSeen>>
  /\ UNCHANGED <<routerVars, observerVars>>

\* the disconnect() the hook returns
hookDisconnect == "conn" \in mounted /\ Disconnect

\* ------------------------------------------------- singleton
BaseUrls == {"ws://a", "ws://b"}

\* new TaskWebSocketClient(baseUrl): the fields after construction
NewClient(baseUrl) ==
  [url |-> baseUrl, ws |-> 0, socks |-> <<>>, reconnectAttempts |-> 0,
   pingInterval |-> FALSE, isManualClose |-> FALSE, timers |-> 0,
   taskCallbacks |-> {}, globalProgressCallbacks |-> {}]

\* connect() of instance c
clientConnect(c) ==
  IF c.ws # 0 /\ c.socks[c.ws].readyState = "OPEN" THEN c
  ELSE [c EXCEPT !.isManualClose = FALSE,
                 !.socks = Append(@, [readyState |-> "CONNECTING"]),
                 !.ws = Len(c.socks) + 1]

\* disconnect() of instance c
clientDisconnect(c) ==
  [c EXCEPT !.isManualClose = TRUE,
            !.pingInterval = FALSE,
            !.socks = IF c.ws # 0 THEN [@ EXCEPT ![c.ws].readyState = close(@)] ELSE @,
            !.ws = 0]

\* ws.onopen of socket i of instance c
clientOnOpen(c, i) ==
  [c EXCEPT !.socks[i].readyState = "OPEN",
            !.reconnectAttempts = 0,
            !.pingInterval = TRUE]

\* ws.onclose of socket i of instance c, with scheduleReconnect()
clientOnClose(c, i) ==
  LET again == ~c.isManualClose /\ c.reconnectAttempts < maxReconnectAttempts
  IN [c EXCEPT !.socks[i].readyState = "CLOSED",
               !.pingInterval = FALSE,
               !.reconnectAttempts = IF again THEN @ + 1 ELSE @,
               !.timers = IF again THEN @ + 1 ELSE @]

\* the setTimeout callback of scheduleReconnect of instance c
clientTimer(c) ==
  LET fired == [c EXCEPT !.timers = @ - 1]
  IN IF ~c.isManualClose THEN clientConnect(fired) ELSE fired

\* history: the instances in all and their WebSocket objects, after c replaced
\* instance n
ObjectsMade(all, n, c) ==
  Len(all)
    + Sum([k \in 1..Len(all) |-> IF k = n THEN Len(c.socks) ELSE Len(all[k].socks)])

\* a method the application calls on the instance it was handed
clientCall(c, method) ==
  CASE method = "connect" -> clientConnect(c)
    [] method = "subscribeToTask" ->
         [c EXCEPT !.taskCallbacks = @ \cup {<<"t1", "A">>}]
    [] method = "onProgress" ->
         [c EXCEPT !.globalProgressCallbacks = @ \cup {"B"}]
    [] OTHER -> c

\* getWebSocketClient(baseUrl), followed by a method call on what it returns
getWebSocketClient ==
  \E baseUrl \in BaseUrls,
     method \in {"none", "connect", "subscribeToTask", "onProgress"} :
    LET made == wsClientInstance = 0
        n == IF made THEN Len(clients) + 1 ELSE wsClientInstance
        all == IF made THEN Append(clients, NewClient(baseUrl)) ELSE clients
    IN /\ ObjectsMade(all, n, clientCall(all[n], method)) <= MaxObjects
       /\ wsClientInstance' = n
       /\ clients' = [all EXCEPT ![n] = clientCall(@, method)]
       /\ last' = [NoLast EXCEPT !.op = "get", !.inst = n,
                     !.created = Len(clientCall(all[n], method).socks)
                                   - Len(all[n].socks)]
       /\ UNCHANGED <<clientVars, viewVars, hookVars>>

\* a reset that forgets the instance without disconnecting it
resetWithoutDisconnect ==
  /\ wsClientInstance' = 0
  /\ UNCHANGED clients
  /\ last' = [NoLast EXCEPT !.op = "reset", !.inst = wsClientInstance]
  /\ UNCHANGED <<clientVars, viewVars, hookVars>>

\* resetWebSocketClient()
resetWebSocketClient ==
  /\ IF wsClientInstance # 0
       THEN clients' = [clients EXCEPT ![wsClientInstance] = clientDisconnect(@)]
       ELSE UNCHANGED clients
  /\ wsClientInstance' = 0
  /\ last' = [NoLast EXCEPT !.op = "reset", !.inst = wsClientInstance]
  /\ UNCHANGED <<clientVars, viewVars, hookVars>>

\* the transport opens or closes a socket of an instance, current or not
InstanceSockEvent ==
  \E n \in 1..Len(clients) : \E i \in 1..Len(clients[n].socks) :
    LET c == clients[n]
    IN /\ \/ /\ c.socks[i].readyState = "CONNECTING"
             /\ clients' = [clients EXCEPT ![n] = clientOnOpen(c, i)]
             /\ last' = [NoLast EXCEPT !.op = "open"]
          \/ /\ c.socks[i].readyState # "CLOSED"
             /\ clients' = [clients EXCEPT ![n] = clientOnClose(c, i)]
             /\ last' = [NoLast EXCEPT !.op = "close"]
       /\ UNCHANGED <<wsClientInstance, clientVars, viewVars, hookVars>>

\* a reconnect timer of an instance fires
InstanceTimerFire ==
  \E n \in 1..Len(clients) :
    LET c == clients[n]
    IN /\ c.timers > 0
       /\ ObjectsMade(clients, n, clientTimer(c)) <= MaxObjects
       /\ clients' = [clients EXCEPT ![n] = clientTimer(c)]
       /\ last' = [NoLast EXCEPT !.op = "timer", !.inst = n,
                     !.created = Len(clientTimer(c).socks) - Len(c.socks)]
       /\ UNCHANGED <<wsClientInstance, clientVars, viewVars, hookVars>>

\* ------------------------------------------------- specifications
\* frames carrying a progress event for one of tids
EventFrames(tids) ==
  {f \in Frames : f.parses /\ f.type \in TaskTypes /\ f.payload.kind = "progress"
                    /\ f.payload.taskId \in tids}

\* one frame of every kind handleMessage distinguishes, every payload
FanoutFrames ==
  {f \in Frames : f.type \in {"task_progress", "connection_established"} \/ ~f.parses}

\* the whole client: every operation on every input
Next ==
  \/ Connect(MaxSocks)
  \/ TimerFire(MaxSocks)
  \/ Disconnect
  \/ SockOpen
  \/ SockClosed
  \/ SockMessageLogged(MaxFrames, Frames)
  \/ PingTick
  \/ subscribeToTask(TaskIds, Callbacks)
  \/ unsubscribeFromTask(TaskIds, Callbacks)
  \/ onProgress(Callbacks)
  \/ onConnectionChange
  \/ onError

Spec == Init /\ [][Next]_vars

\* connection manager and router together: one task, one per-task and one
\* global callback, events on every connection
NextClient ==
  \/ Connect(MaxClientSocks)
  \/ TimerFire(MaxClientSocks)
  \/ Disconnect
  \/ SockOpen
  \/ SockClosed
  \/ SockMessage(EventFrames({"t1"}))
  \/ PingTick
  \/ subscribeToTask({"t1"}, {"A"})
  \/ unsubscribeFromTask({"t1"}, {"A"})
  \/ onProgress({"B"})

SpecClient == Init /\ [][NextClient]_vars

\* routing of events: subscribeToTask, unsubscribeFromTask and inbound frames
NextRoute ==
  \/ Connect(1)
  \/ SockOpen
  \/ SockMessageLogged(MaxFrames, Frames)
  \/ subscribeToTask(TaskIds, Callbacks)
  \/ unsubscribeFromTask(TaskIds, Callbacks)

SpecRoute == Init /\ [][NextRoute]_vars

\* fan-out of one connection's events to per-task and global callbacks
NextFanout ==
  \/ Connect(1)
  \/ SockOpen
  \/ SockMessage(FanoutFrames)
  \/ subscribeToTask(TaskIds, Callbacks)
  \/ unsubscribeFromTask(TaskIds, Callbacks)
  \/ onProgress(Callbacks)

SpecFanout == Init /\ [][NextFanout]_vars

\* the connection manager: connect, disconnect, transport events, timers
NextConn ==
  \/ Connect(MaxSocks)
  \/ TimerFire(MaxSocks)
  \/ Disconnect
  \/ SockOpen
  \/ SockClosed
  \/ PingTick

SpecConn == Init /\ [][NextConn]_vars

\* the transport ends every opening and every closing handshake of socket i:
\* with the open event, or with the close event (after the error event when
\* the socket never opened)
Settle(i) ==
  /\ i \in 1..Len(socks)
  /\ socks[i].readyState \in {"CONNECTING", "CLOSING"}
  /\ (SockOpen \/ SockClosed)
  /\ last'.sock = i

\* the connection manager on a transport that ends every handshake
NextSettle ==
  \/ Connect(MaxSettleSocks)
  \/ TimerFire(MaxSettleSocks)
  \/ Disconnect
  \/ SockOpen
  \/ SockClosed
  \/ PingTick

SpecSettle ==
  Init /\ [][NextSettle]_vars /\ \A i \in 1..MaxSettleSocks : WF_vars(Settle(i))

\* the connection manager with its connection-state and error observers
NextObserve ==
  \/ Connect(MaxObserveSocks)
  \/ TimerFire(MaxObserveSocks)
  \/ Disconnect
  \/ SockOpen
  \/ SockClosed
  \/ PingTick
  \/ onConnectionChange
  \/ onError

SpecObserve == Init /\ [][NextObserve]_vars

\* the single-task view on one connection
NextTaskView ==
  \/ Connect(1)
  \/ SockOpen
  \/ SockMessageViews(ViewFrames)
  \/ useTaskProgress

SpecTaskView == Init /\ [][NextTaskView]_vars

\* events for the multi-task view
MultiFrames == {f \in ViewFrames : f.payload.progress = 40}

\* the multi-task view on one connection
NextMultiView ==
  \/ Connect(1)
  \/ SockOpen
  \/ SockMessageViews(MultiFrames)
  \/ subscribe
  \/ unsubscribe
  \/ clearCompleted

SpecMultiView == Init /\ [][NextMultiView]_vars

\* events for the global history view
HistoryFrames == {f \in ViewFrames : f.payload.taskId = "t1" /\ f.payload.progress = 40}

\* the global history view on one connection
NextHistory ==
  \/ Connect(1)
  \/ SockOpen
  \/ (Len(received) < MaxEvents /\ SockMessageViews(HistoryFrames))
  \/ useGlobalTaskProgress

SpecHistory == Init /\ [][NextHistory]_vars

\* events for the four hooks together
AdapterFrames ==
  {f \in ViewFrames : f.payload.progress = 40 /\
     <<f.payload.taskId, f.payload.status>> \in {<<"t1", "running">>, <<"t2", "success">>}}

\* the four hooks of one application on one connection: mounts, unmounts,
\* renders with another task id, subscribe/unsubscribe calls and events
NextAdapters ==
  \/ Connect(1)
  \/ SockOpen
  \/ (Len(received) < MaxAdapterEvents /\ SockMessageViews(AdapterFrames))
  \/ useTaskProgressMount
  \/ ("task" \in mounted /\ useTaskProgress)
  \/ useTaskProgressUnmount
  \/ useMultiTaskProgress
  \/ ("multi" \in mounted /\ subscribe)
  \/ ("multi" \in mounted /\ unsubscribe)
  \/ ("multi" \in mounted /\ clearCompleted)
  \/ useMultiTaskProgressUnmount
  \/ useGlobalTaskProgress
  \/ useGlobalTaskProgressUnmount
  \/ useWebSocketConnection(1)
  \/ useWebSocketConnectionUnmount

SpecAdapters == Init /\ [][NextAdapters]_vars

\* events of one task on one connection, with a per-task and a global callback
\* that come and go
NextReplay ==
  \/ Connect(1)
  \/ SockOpen
  \/ SockMessageLogged(MaxFrames, EventFrames({"t1"}))
  \/ subscribeToTask({"t1"}, {"A"})
  \/ unsubscribeFromTask({"t1"}, {"A"})
  \/ onProgress({"B"})

SpecReplay == Init /\ [][NextReplay]_vars

\* the connection manager with connection-state observers that stay registered
NextConnState ==
  \/ Connect(MaxObserveSocks)
  \/ TimerFire(MaxObserveSocks)
  \/ Disconnect
  \/ SockOpen
  \/ SockClosed
  \/ (onConnectionChange /\ Len(connectionCallbacks') > Len(connectionCallbacks))

SpecConnState == Init /\ [][NextConnState]_vars

\* events of one task dispatched to callbacks that may subscribe in turn
NextReentrant ==
  \/ Connect(1)
  \/ SockOpen
  \/ SockMessageReentrant(EventFrames({"t1"}))
  \/ subscribeToTask({"t1"}, Callbacks)
  \/ unsubscribeFromTask({"t1"}, Callbacks)
  \/ onProgress(Callbacks)

SpecReentrant == Init /\ [][NextReentrant]_vars

\* the module-level singleton and the instances it has handed out
NextSingleton ==
  \/ getWebSocketClient
  \/ resetWebSocketClient
  \/ InstanceSockEvent
  \/ InstanceTimerFire

\* the base URLs are ones the WebSocket constructor accepts
InitSingleton == Init /\ urlOk

SpecSingleton == InitSingleton /\ [][NextSingleton]_vars

\* the reconnect schedule: the application connects once at start, every later
\* socket is opened by a reconnect timer
NextBackoff ==
  \/ Connect(1)
  \/ TimerFire(MaxBackoffSocks)
  \/ Disconnect
  \/ SockOpen
  \/ SockClosed
  \/ PingTick

SpecBackoff == Init /\ [][NextBackoff]_vars

\* ------------------------------------------------- properties
\* the frames a callback was called with as a per-task subscriber, in call order
Tagged(frames, via) == [k \in 1..Len(frames) |-> <<frames[k], via>>]

\* C1: for any sequence of subscribeToTask, unsubscribeFromTask and inbound
\* frames, the calls every callback has received are exactly the events of the
\* tasks it was subscribed to when they were dispatched: each once, none for
\* another task id, in the order the frames arrived.
C1_RoutedOnceInOrder ==
  \A c \in Callbacks : log[c] = Tagged(due[c], "task")

\* C1 witness: A got both events of t1 in order; B, subscribed to t2 only when
\* the second one (for t1) was dispatched, got the first event only
C1_Witness ==
  /\ nFrames = 2
  /\ log["A"] = << <<1, "task">>, <<2, "task">> >>
  /\ log["B"] = << <<1, "task">> >>
  /\ last.op = "message" /\ last.tid = "t1"
  /\ Registered("t2", "B") /\ ~Registered("t1", "B")

\* the last step dispatched a progress event of a task
DispatchedEvent(l) == l.op = "message" /\ l.origin = "task" /\ l.tid \in TaskIds

\* C2: the dispatch of a success, failed or cancelled event for a task leaves
\* no per-task callback set for it; an event of the task calls none of the
\* callbacks that were subscribed at an earlier terminal event (and have not
\* subscribed again), calls every global callback, and leaves the global set
\* as it was.
C2_TerminalCleanup ==
  [][DispatchedEvent(last') =>
       /\ Range(last'.task) \cap retired[last'.tid] = {}
       /\ last'.global = globalProgressCallbacks
       /\ globalProgressCallbacks' = globalProgressCallbacks
       /\ (last'.status \in TerminalStatuses => ~taskCallbacks'[last'.tid].has)
    ]_vars

\* C2 witness: a later event for t1, after a terminal event that found a
\* subscriber: no per-task callback is called, the global one is
C2_Witness ==
  /\ DispatchedEvent(last) /\ last.tid = "t1" /\ last.status = "running"
  /\ retired["t1"] # {}
  /\ last.task = <<>> /\ last.global # <<>>
  /\ ~get("t1").has

\* C3: when callbacks throw during the dispatch of an event, every per-task
\* callback of the task and every global callback is still called with it, and
\* a terminal event still removes the task's entry in that dispatch.
C3_ThrowContained ==
  [][(DispatchedEvent(last') /\ last'.threw # {}) =>
       /\ last'.task = get(last'.tid).set
       /\ last'.global = globalProgressCallbacks
       /\ (last'.status \in TerminalStatuses => ~taskCallbacks'[last'.tid].has)
    ]_vars

\* C3 witness: the first per-task callback and the first global callback both
\* threw on a terminal event; two of each kind were called, the entry is gone
C3_Witness ==
  /\ DispatchedEvent(last) /\ last.status \in TerminalStatuses
  /\ Len(last.task) = 2 /\ last.task[1] \in last.threw
  /\ Len(last.global) = 2 /\ last.global[1] \in last.threw
  /\ ~get(last.tid).has

\* the delays of the five reconnect attempts, in ms
BackoffSchedule == <<1000, 2000, 4000, 8000, 16000>>

\* C4: the reconnect attempts scheduled since the last successful open are the
\* first reconnectAttempts entries of 1000, 2000, 4000, 8000, 16000 ms (31000 ms
\* at most in total), so no 6th is ever scheduled; the counter never exceeds 5;
\* and when a failed attempt's close schedules nothing because the 5 attempts
\* are used up, no timer is pending and no socket is left that could open.
C4_Backoff ==
  /\ reconnectAttempts \in 0..5
  /\ schedLog = SubSeq(BackoffSchedule, 1, reconnectAttempts)
  /\ Sum(schedLog) <= 31000
  /\ (reconnectAttempts = 5 /\ last.op = "close" /\ last.failed
        /\ last.scheduled = 0 /\ ~isManualClose) =>
       /\ timers = <<>>
       /\ \A i \in 1..Len(socks) : socks[i].readyState = "CLOSED"
       /\ ~isConnected

\* C4 witness: an opened connection was lost and the five attempts all failed
C4_Witness ==
  /\ reconnectAttempts = 5
  /\ schedLog = BackoffSchedule /\ Sum(schedLog) = 31000
  /\ last.op = "close" /\ last.failed /\ last.origin = "timer"
  /\ last.scheduled = 0
  /\ Len(socks) = 6 /\ socks[1].opened
  /\ \A i \in 2..6 : ~socks[i].opened /\ socks[i].origin = "timer"
  /\ ~isManualClose

\* C5: the close event of a socket that disconnect() closed (it was CLOSING
\* when the event arrived) schedules no reconnect attempt.
C5_ManualCloseNeverReconnects ==
  (last.op = "close" /\ last.was = "CLOSING") => last.scheduled = 0

\* C6: a reconnect timer that the loss of an open connection scheduled and that
\* was pending when disconnect() was called opens no connection when it fires.
C6_PendingReconnectSkipped ==
  (last.op = "timer" /\ last.was = "lost" /\ last.stale) => last.created = 0

\* the sockets that are open or opening: their handlers feed handleMessage
Live == {i \in 1..Len(socks) : socks[i].readyState \in {"CONNECTING", "OPEN"}}

\* C8: at most one socket created by the client is open or opening.
C8_SingleConnection == Cardinality(Live) <= 1

\* the steps that run connect(): the application's call, a reconnect timer
RanConnect(l) == l.op = "connect" \/ (l.op = "timer" /\ l.origin = "timer")

\* C7: connect() on an open transport resolves, creates no socket and leaves
\* this.ws, the per-task map, the global set, the heartbeat timer and the
\* reconnect counter as they were.
C7_ConnectIdempotent ==
  [][(RanConnect(last') /\ ws # 0 /\ socks[ws].readyState = "OPEN") =>
       /\ last'.promise = "resolved"
       /\ last'.created = 0
       /\ UNCHANGED <<ws, socks, taskCallbacks, globalProgressCallbacks,
                      pingInterval, reconnectAttempts>>
    ]_vars

\* C7 witness: connect() was called on an open transport with a per-task and a
\* global subscription and the heartbeat running
C7_Witness ==
  /\ last.op = "connect" /\ last.promise = "resolved" /\ last.created = 0
  /\ ws # 0 /\ socks[ws].readyState = "OPEN"
  /\ get("t1").has /\ globalProgressCallbacks # <<>> /\ pingInterval

\* C9: connect(), disconnect(), reconnect timers, the heartbeat and the open,
\* close and error events of the transport leave the per-task map and the
\* global set unchanged; an event arriving on any connection is delivered to
\* every callback subscribed to its task, however many connections were lost
\* since the subscription.
C9_SubscriptionsSurvive ==
  [][/\ last'.op \in {"connect", "timer", "disconnect", "open", "close", "ping"} =>
          UNCHANGED <<taskCallbacks, globalProgressCallbacks>>
     /\ DispatchedEvent(last') =>
          /\ \A r \in registered : r[1] = last'.tid => r[2] \in Range(last'.task)
          /\ last'.global = globalProgressCallbacks
    ]_vars

\* C9 witness: an event reached a callback on a connection opened by a
\* reconnect timer, after the connection it subscribed on was lost
C9_Witness ==
  /\ DispatchedEvent(last) /\ last.status = "running"
  /\ socks[last.sock].origin = "timer"
  /\ \E r \in registered :
       r[1] = last.tid /\ r[2] \in Range(last.task) /\ r[3] < Drops
  /\ last.global # <<>>

\* C10: a connect() that fails to open a connection rejects its promise and
\* notifies every registered error observer, whether the opening ends with the
\* transport's error event or with an exception from the WebSocket constructor.
C10_FailedConnectNotifies ==
  ((RanConnect(last) \/ last.op = "close") /\ last.failed) =>
     /\ last.promise = "rejected"
     /\ last.errNotified = Range(errorCallbacks)

\* C11: the close event that ends a failed opening of a connection the
\* application asked for with connect() schedules no reconnect attempt.
C11_FailedConnectNotRetried ==
  (last.op = "close" /\ last.origin = "app" /\ last.failed) => last.scheduled = 0

\* C12: when disconnect() returns, isConnected() is false, the heartbeat timer
\* is stopped and this.ws is null, and the per-task map and the global set are
\* as before; a disconnect() that directly follows another one, or is made on
\* a client that never connected, changes no connection, timer or counter.
C12_DisconnectIdempotent ==
  [][last'.op = "disconnect" =>
       /\ ws' = 0 /\ ~pingInterval' /\ isManualClose'
       /\ ~(ws' # 0 /\ socks'[ws'].readyState = "OPEN")
       /\ UNCHANGED <<taskCallbacks, globalProgressCallbacks>>
       /\ (last.op = "disconnect" \/ socks = <<>>) =>
            /\ UNCHANGED <<ws, socks, pingInterval, reconnectAttempts, timers>>
            /\ (last.op = "disconnect" => UNCHANGED isManualClose)
    ]_vars

\* C12 witness: disconnect() was called twice in a row on a connection that was
\* open with the heartbeat running and subscribers registered; the socket is
\* still closing
C12_Witness ==
  /\ last.op = "disconnect" /\ last.origin = "again"
  /\ ws = 0 /\ ~pingInterval
  /\ \E i \in 1..Len(socks) : socks[i].opened /\ socks[i].readyState = "CLOSING"
  /\ get("t1").has /\ globalProgressCallbacks # <<>>

\* C13: every task id in the per-task map has a non-empty callback set, and
\* the set holds exactly the callbacks subscribed to the id and not removed
\* since; so once every subscription has been removed no id is tracked.
C13_NoEmptyEntries ==
  /\ \A t \in TaskIds : taskCallbacks[t].has => taskCallbacks[t].set # <<>>
  /\ \A t \in TaskIds :
       Range(taskCallbacks[t].set) = {c \in Callbacks : Registered(t, c)}
  /\ registered = {} => Cardinality({t \in TaskIds : taskCallbacks[t].has}) = 0

\* C13 witness: an unsubscribe removed the last callback of the last tracked
\* id (the unsubscribe message went out) while no task had completed
C13_Witness ==
  /\ last.op = "unsubscribe" /\ last.sent # <<>>
  /\ registered = {}
  /\ \A t \in TaskIds : ~taskCallbacks[t].has /\ retired[t] = {}

\* C14: a frame that is not a task_progress, task_completed or task_failed
\* envelope carrying a progress event (an unparsable frame, one of another
\* type, one whose payload is no progress event) calls no per-task and no
\* global callback, notifies no error observer and cleans nothing up.
C14_OnlyValidEventsDispatch ==
  (last.op = "message" /\ ~DispatchedEvent(last)) =>
     /\ last.task = <<>> /\ last.global = <<>>
     /\ last.errNotified = {} /\ ~last.cleaned

\* C15: whenever isConnected() is true the heartbeat interval is set.
C15_HeartbeatWhileConnected ==
  (ws # 0 /\ socks[ws].readyState = "OPEN") => pingInterval

\* C16: the promise of every connect() is settled once and for good: at once
\* when the transport is already open (resolved) or cannot be created
\* (rejected), otherwise eventually, resolved exactly when its socket opened
\* and rejected when the opening failed, also when disconnect() closed the
\* socket or another connect() replaced it before it opened.
C16_PromiseSettledOnce ==
  /\ [](RanConnect(last) => (last.promise = "pending" <=> last.created # 0))
  /\ [](\A i \in 1..Len(socks) :
          /\ socks[i].promise = "resolved" <=> socks[i].opened
          /\ socks[i].promise = "rejected" =>
               ~socks[i].opened /\ socks[i].readyState = "CLOSED")
  /\ [][\A i \in 1..Len(socks) :
          socks[i].promise # "pending" => socks'[i].promise = socks[i].promise]_vars
  /\ \A i \in 1..MaxSettleSocks :
       (Len(socks) >= i) ~> (Len(socks) >= i /\ socks[i].promise # "pending")

\* C16 witness: the promise of a connect() whose socket disconnect() closed
\* before it opened was rejected, after a later connect() was made
C16_Witness ==
  /\ last.op = "close" /\ last.failed /\ last.was = "CLOSING"
  /\ last.promise = "rejected" /\ socks[last.sock].promise = "rejected"
  /\ Len(socks) > last.sock

\* the instance has a socket that is open or opening under its handle
Connected(c) == c.ws # 0 /\ c.socks[c.ws].readyState \in {"CONNECTING", "OPEN"}

\* C17: getWebSocketClient returns the existing instance, whatever baseUrl it
\* is given, and constructs one only when there is none; only
\* resetWebSocketClient makes the module forget an instance, and it leaves
\* that instance disconnected; the instance constructed after a reset starts
\* with no per-task and no global subscriber; and a reconnect timer of an
\* instance that was reset opens no connection when it fires.
C17_Singleton ==
  [][/\ (last'.op = "get" /\ wsClientInstance # 0) =>
          /\ last'.inst = wsClientInstance
          /\ wsClientInstance' = wsClientInstance
          /\ Len(clients') = Len(clients)
          /\ clients'[wsClientInstance].url = clients[wsClientInstance].url
     /\ (last'.op = "get" /\ wsClientInstance = 0) =>
          /\ last'.inst = Len(clients) + 1
          /\ wsClientInstance' = Len(clients) + 1
          /\ Len(clients') = Len(clients) + 1
          /\ Cardinality(clients'[Len(clients') ].taskCallbacks)
               + Cardinality(clients'[Len(clients') ].globalProgressCallbacks) <= 1
          /\ clients'[Len(clients') ].socks = <<>> \/ last'.created = 1
     /\ wsClientInstance' # wsClientInstance =>
          last'.op = "reset" \/ wsClientInstance = 0
     /\ (last'.op = "reset" /\ wsClientInstance # 0) =>
          /\ wsClientInstance' = 0
          /\ ~Connected(clients'[wsClientInstance])
          /\ ~clients'[wsClientInstance].pingInterval
     /\ (last'.op = "timer" /\ last'.inst # wsClientInstance) =>
          /\ last'.created = 0
          /\ clients'[last'.inst].socks = clients[last'.inst].socks
    ]_vars

\* C17 witness: a reconnect timer of an instance that had subscribers and was
\* reset has fired without opening a connection, after the next access
\* constructed a second instance, which has no subscriber
C17_Witness ==
  /\ last.op = "timer" /\ last.inst = 1 /\ last.created = 0
  /\ wsClientInstance = 2
  /\ clients[1].taskCallbacks # {} /\ clients[1].globalProgressCallbacks # {}
  /\ clients[2].taskCallbacks = {} /\ clients[2].globalProgressCallbacks = {}
  /\ clients[2].url # clients[1].url

\* C18: useTaskProgress returns the fields of the last event its callback
\* received since the current taskId became current, whatever its progress
\* value, and the default state (no status, percentage 0, the three flags
\* false, no result, no error) while the id is null or no such event has been
\* received, also right after the id changed from one task to another.
C18_ViewReflectsLatest ==
  LET r == useTaskProgressResult(viewProgress)
  IN IF viewLatest = NoProgress
       THEN r = [status |-> "null", percentage |-> 0, isRunning |-> FALSE,
                 isCompleted |-> FALSE, isFailed |-> FALSE,
                 result |-> "null", error |-> "null"]
       ELSE /\ r.status = viewLatest.status
            /\ r.percentage = viewLatest.progress
            /\ r.isRunning = (viewLatest.status \in {"queued", "running"})
            /\ r.isCompleted = (viewLatest.status = "success")
            /\ r.isFailed = (viewLatest.status = "failed")

\* the ids with an entry in the tasks map
Entries == {t \in TaskIds : tasks[t] # NoProgress}

\* the router holds at most one callback of the multi-task view per id
OneCallbackPerId ==
  \A t \in TaskIds :
    Cardinality(Range(taskCallbacks[t].set) \cap MultiCallbacks) <= 1

\* an event the view received is the map's entry for its id
EventIsEntry ==
  (last.op = "message" /\ Range(last.task) \cap MultiCallbacks # {}) =>
     /\ last.tid \in Entries
     /\ tasks[last.tid].status = last.status

\* unsubscribe(id) leaves no callback of the view, no disposer and no entry for id
UnsubscribeRemoves ==
  last.op = "multi.unsubscribe" =>
     /\ Range(taskCallbacks[last.tid].set) \cap MultiCallbacks = {}
     /\ unsubscribeRefs[last.tid] = ""
     /\ last.tid \notin Entries

\* C19 as stated: at most one router callback per id, an event received for an
\* id is the one map entry of the id, every entry is counted once in
\* runningCount, completedCount or failedCount, and unsubscribe(id) removes
\* the registration and the entry.
C19_EntryCountedOnce ==
  /\ OneCallbackPerId
  /\ EventIsEntry
  /\ UnsubscribeRemoves
  /\ runningCount + completedCount + failedCount = Cardinality(Entries)

\* C19 amended: a subscribe(id) for an id that has a stored disposer changes
\* nothing; the router holds at most one callback of the view per id; an event
\* received for an id is the one map entry of the id, counted once in
\* runningCount, completedCount or failedCount unless its status is cancelled,
\* which none of the three counts; unsubscribe(id) removes the registration
\* and the entry.
C19_EntryCountedUnlessCancelled ==
  /\ [](/\ OneCallbackPerId
        /\ EventIsEntry
        /\ UnsubscribeRemoves
        /\ runningCount + completedCount + failedCount
             = Cardinality({t \in Entries : tasks[t].status # "cancelled"}))
  /\ [][(last'.op = "multi.subscribe" /\ unsubscribeRefs[last'.tid] # "") =>
          UNCHANGED <<taskCallbacks, unsubscribeRefs, tasks>>]_vars

\* C19 witness: subscribe(t1) was repeated while t1's entry held a running
\* event and t2's a cancelled one: one callback for t1, runningCount 1
C19_Witness ==
  /\ last.op = "multi.subscribe" /\ last.tid = "t1" /\ last.origin = "again"
  /\ Entries = {"t1", "t2"}
  /\ tasks["t1"].status = "running" /\ tasks["t2"].status = "cancelled"
  /\ runningCount = 1 /\ completedCount = 0 /\ failedCount = 0
  /\ Cardinality(Range(taskCallbacks["t1"].set) \cap MultiCallbacks) = 1

\* C20: clearCompleted() removes from the tasks map, and unsubscribes, every
\* entry whose status is success, failed or cancelled, and leaves every entry
\* whose status is queued or running, and its subscription, in place.
C20_ClearCompletedTerminal ==
  [][last'.op = "clearCompleted" =>
       \A t \in Entries :
          IF tasks[t].status \in TerminalStatuses
            THEN /\ tasks'[t] = NoProgress
                 /\ unsubscribeRefs'[t] = ""
                 /\ Range(taskCallbacks'[t].set) \cap MultiCallbacks = {}
            ELSE /\ tasks'[t] = tasks[t]
                 /\ unsubscribeRefs'[t] = unsubscribeRefs[t]
                 /\ taskCallbacks'[t] = taskCallbacks[t]]_vars

\* the smaller of two numbers
Min(a, b) == IF a < b THEN a ELSE b

\* C21: the global history view holds the min(n, cap) most recent of the n
\* events it received, most recent first; the list is never longer than the
\* cap, and latestProgress is the most recent event received (null before the
\* first).
C21_BoundedHistory ==
  "global" \in mounted =>
     /\ allProgress = SubSeq(received, 1, Min(Len(received), maxHistory))
     /\ Len(allProgress) <= maxHistory
     /\ latestProgress = IF received = <<>> THEN NoProgress ELSE received[1]

\* C21 witness: a third event arrived at a view with cap 2 and pushed the
\* oldest, a different event, out of the list
C21_Witness ==
  /\ "global" \in mounted /\ maxHistory = 2
  /\ last.op = "message" /\ Contains(last.global, "G")
  /\ Len(received) = 3 /\ received[3] \notin {received[1], received[2]}
  /\ allProgress = <<received[1], received[2]>>
  /\ latestProgress = received[1]

\* the callbacks of the hooks found in the client's four registries
HookCallbacks ==
  [task |-> {<<t, "H">> : t \in RegisteredFor("H")},
   multi |-> UNION {{<<t, c>> : t \in RegisteredFor(c)} : c \in MultiCallbacks},
   global |-> {"G"} \cap Range(globalProgressCallbacks),
   conn |-> {c \in {"HC"} : Contains(connectionCallbacks, c)}
              \cup {c \in {"HE"} : Contains(errorCallbacks, c)}]

\* C22: a hook that is not mounted has none of its callbacks in the per-task
\* map, the global callback set, the connection observers or the error
\* observers; the single-task view holds at most one registration, under the
\* task id it was last rendered with.
C22_NoLeak ==
  /\ \A a \in {"task", "multi", "global", "conn"} :
        a \notin mounted => HookCallbacks[a] = {}
  /\ HookCallbacks.task \subseteq {<<viewTaskId, "H">>}

\* C22 witness: on an open connection the multi-task view was unmounted while
\* it held a subscription; no hook is mounted any more and the other task id
\* has no entry either
C22_Witness ==
  /\ last.op = "unmount" /\ last.origin = "multi" /\ last.removed # {}
  /\ mounted = {}
  /\ socks # <<>> /\ socks[1].readyState = "OPEN"
  /\ \E t \in TaskIds : taskCallbacks[t] = NoEntry /\ t \notin {r[1] : r \in last.removed}

SentOnly(sent, type, t) ==
  Len(sent) = 1 /\ sent[1].type = type /\ sent[1].taskId = t

\* C24: every subscribeToTask(id, cb) registers cb under id and sends one
\* subscribe message for id, open connection or not; the disposer, which is
\* unsubscribeFromTask(id, cb), changes nothing and sends nothing when cb is
\* not registered under id (a repeated call, or a call after the terminal
\* cleanup).
C24_SubscribeAlwaysSends ==
  [][/\ last'.op = "subscribe" =>
          /\ Contains(taskCallbacks'[last'.tid].set, last'.cb)
          /\ SentOnly(last'.sent, "subscribe", last'.tid)
     /\ (last'.op = "unsubscribe" /\ ~Contains(get(last'.tid).set, last'.cb)) =>
          /\ UNCHANGED <<taskCallbacks, globalProgressCallbacks>>
          /\ last'.sent = <<>>]_vars

\* the registrations of the per-task map other than callback c under task t
OtherRegistrations(map, t, c) ==
  {<<u, d>> \in TaskIds \X Callbacks : d \in Range(map[u].set) /\ <<u, d>> # <<t, c>>}

\* C25: unsubscribeFromTask(X, cb) sends one unsubscribe message for X when it
\* removes the last callback registered for X and nothing otherwise, and
\* never touches another registration; onProgress and its disposer send
\* nothing.
C25_UnsubscribeSentOnLast ==
  [][/\ last'.op = "unsubscribe" =>
          /\ IF get(last'.tid).set = <<last'.cb>>
               THEN SentOnly(last'.sent, "unsubscribe", last'.tid)
               ELSE last'.sent = <<>>
          /\ OtherRegistrations(taskCallbacks', last'.tid, last'.cb)
               = OtherRegistrations(taskCallbacks, last'.tid, last'.cb)
          /\ UNCHANGED globalProgressCallbacks
     /\ last'.op \in {"onProgress", "offProgress"} =>
          /\ last'.sent = <<>>
          /\ UNCHANGED taskCallbacks]_vars

\* C26: a non-terminal event for a task without per-task and without global
\* subscribers changes no state of the client and calls nothing; a callback is
\* only ever called by the dispatch of an event, with that event, and only if
\* it was registered for the event's task, or globally, before the dispatch.
C26_NoReplay ==
  [][/\ (/\ last'.op = "message" /\ DispatchedEvent(last')
          /\ last'.status \notin TerminalStatuses
          /\ get(last'.tid).set = <<>> /\ globalProgressCallbacks = <<>>) =>
            /\ UNCHANGED <<taskCallbacks, globalProgressCallbacks, connVars, observerVars>>
            /\ log' = log
     /\ \A c \in Callbacks :
          log'[c] # log[c] =>
            /\ last'.op = "message"
            /\ nFrames' = nFrames + 1
            /\ \/ /\ Contains(get(last'.tid).set, c)
                  /\ Contains(globalProgressCallbacks, c)
                  /\ log'[c] = log[c] \o << <<nFrames', "task">>, <<nFrames', "global">> >>
               \/ /\ Contains(get(last'.tid).set, c)
                  /\ ~Contains(globalProgressCallbacks, c)
                  /\ log'[c] = Append(log[c], <<nFrames', "task">>)
               \/ /\ ~Contains(get(last'.tid).set, c)
                  /\ Contains(globalProgressCallbacks, c)
                  /\ log'[c] = Append(log[c], <<nFrames', "global">>)]_vars

\* C26 witness: the first event of t1 found no subscriber; A subscribed to t1
\* afterwards and was called with the second event only, and B, registered
\* globally after both, was called with neither
C26_Witness ==
  /\ nFrames = 2
  /\ log["A"] = << <<2, "task">> >>
  /\ log["B"] = <<>> /\ Contains(globalProgressCallbacks, "B")
  /\ last.op = "onProgress" /\ last.cb = "B"

\* no open or close event of a transport connection is waiting to be processed
NoEventWaiting ==
  \A i \in 1..Len(socks) : socks[i].readyState \in {"OPEN", "CLOSED"}

\* C27: whenever no transport event is waiting, the last value delivered to a
\* registered connection-state observer is the present value of isConnected().
C27_ObserversConsistent ==
  NoEventWaiting =>
    \A o \in ConnObservers :
      (Contains(connectionCallbacks, o) /\ connSeen[o] # "none") =>
         connSeen[o] = IF isConnected THEN "true" ELSE "false"

\* C28: from a disconnect() until the next connect() (isManualClose is set
\* exactly then) no event is dispatched to a per-task or a global callback and
\* the heartbeat interval is not running, whatever the sockets created before
\* the disconnect() still deliver.
C28_SilentAfterDisconnect ==
  isManualClose =>
     /\ last.op = "message" => (last.task = <<>> /\ last.global = <<>>)
     /\ ~pingInterval

\* C29: when a callback called during the dispatch of a terminal event for
\* task X subscribes cb2 to X, then cb2 was called with that event or is
\* registered for X when the dispatch ends.
C29_CleanupOnlyNotified ==
  (last.op = "message" /\ last.cb # "" /\ last.status \in TerminalStatuses) =>
     \/ Contains(last.task, last.cb)
     \/ Contains(last.global, last.cb)
     \/ Contains(get(last.tid).set, last.cb)

\* C30: an id the multi-task view records as subscribed (subscribe(id) would
\* return at once) has the view's callback in the client's per-task map; every
\* id in the tasks map is recorded as subscribed; the three counts together
\* never exceed the size of the tasks map.
C30_RegistryAgrees ==
  /\ \A t \in TaskIds :
        unsubscribeRefs[t] # "" => Contains(taskCallbacks[t].set, unsubscribeRefs[t])
  /\ \A t \in Entries : unsubscribeRefs[t] # ""
  /\ runningCount + completedCount + failedCount <= Cardinality(Entries)

====
